---- MODULE Spec2Model ----
(***************************************************************************)
(* Model of buffalo's error glue: ErrorChain and defaultErrorHandler       *)
(* (errors.go) and the Sentry middleware (middleware/sentry.go, all four   *)
(* revisions of the file).                                                 *)
(*                                                                         *)
(* An error value is the sequence of its layers, outermost first: the      *)
(* cause of a value is its tail, and the nil error is the empty sequence.  *)
(* A layer is                                                              *)
(*   kind   "plain" : implements neither Causer nor HTTPError              *)
(*          "wrap"  : implements Causer (pkg/errors withStack/withMessage  *)
(*                    or any user type with a Cause method)                *)
(*          "http"  : buffalo.HTTPError (Causer; Error() is CausedBy's)    *)
(*   tracer : whether the layer implements StackTracer                     *)
(*   msg    : the text its own Error() yields                              *)
(***************************************************************************)
EXTENDS Integers, Sequences, FiniteSets, TLC

\* ------------------------------------------------------------------ bounds
MaxDepth == 3

\* ------------------------------------------------------------- error values
Nil == << >>

Digits == <<"0", "1", "2", "3", "4", "5", "6", "7", "8", "9">>

RECURSIVE Itoa(_)
Itoa(i) == IF i < 10 THEN Digits[i + 1]
           ELSE Itoa(i \div 10) \o Digits[(i % 10) + 1]

\* the shapes a layer can have: (kind, tracer)
PlainShapes == { <<"plain", FALSE>>, <<"plain", TRUE>> }

CauserShapes == { <<"wrap", FALSE>>, <<"wrap", TRUE>>, <<"http", FALSE>> }

\* the text of the layer that is d-th from the root cause: every layer of a
\* chain has a text of its own (HTTPError has none: its Error() is its cause's)
MsgAt(d) == "msg" \o Itoa(d)

Layer(shape, d) ==
    [kind |-> shape[1], tracer |-> shape[2],
     msg |-> IF shape[1] = "http" THEN "" ELSE MsgAt(d)]

\* every layer but the last has a cause, so it is a Causer
RECURSIVE ErrorsOfDepth(_)
ErrorsOfDepth(n) ==
    IF n = 1 THEN { << Layer(sh, 1) >> : sh \in PlainShapes \cup CauserShapes }
    ELSE { << Layer(sh, n) >> \o e : sh \in CauserShapes, e \in ErrorsOfDepth(n - 1) }

Errors == UNION { ErrorsOfDepth(n) : n \in 1..MaxDepth }

ErrorsOrNil == Errors \cup {Nil}

\* e.(Causer), the ok of the comma-ok form
IsCauser(e) == e # Nil /\ Head(e).kind \in {"wrap", "http"}

\* e.(StackTracer), the ok of the comma-ok form
IsStackTracer(e) == e # Nil /\ Head(e).tracer

\* e.(buffalo.HTTPError), the ok of the comma-ok form
IsHTTPError(e) == e # Nil /\ Head(e).kind = "http"

\* Cause() of a Causer
Cause(e) == Tail(e)

\* Error() dereferences a nil interface, or HTTPError.Error() does
RECURSIVE ErrorPanics(_)
ErrorPanics(e) ==
    IF e = Nil THEN TRUE
    ELSE IF Head(e).kind = "http" THEN ErrorPanics(Cause(e))
    ELSE FALSE

\* Error(): HTTPError returns h.CausedBy.Error(), the others their own text
RECURSIVE ErrorMsg(_)
ErrorMsg(e) ==
    IF e = Nil THEN ""
    ELSE IF Head(e).kind = "http" THEN ErrorMsg(Cause(e))
    ELSE Head(e).msg

\* cause, ok = x.(Causer): the zero Causer (nil) and false when x is no Causer
AsCauser(x) == IF IsCauser(x) THEN [cause |-> x, ok |-> TRUE]
               ELSE [cause |-> Nil, ok |-> FALSE]

\* the for loop of ErrorChain
RECURSIVE ErrorChainLoop(_, _)
ErrorChainLoop(causeChain, c) ==
    IF c.ok
    THEN ErrorChainLoop(Append(causeChain, c.cause), AsCauser(Cause(c.cause)))
    ELSE [causeChain |-> causeChain, cause |-> c.cause]

ErrorChain(e) ==
    LET r == ErrorChainLoop(<< >>, AsCauser(e))
    IN  IF r.cause # Nil THEN Append(r.causeChain, r.cause) ELSE r.causeChain

\* ------------------------------------------------------ interface{} values
\* a value of c.Get("env") or of a panic: t is its dynamic type
NoValue == [t |-> "nil", s |-> "", n |-> 0]

StringValue(str) == [t |-> "string", s |-> str, n |-> 0]

IntValue(i) == [t |-> "int", s |-> "", n |-> i]

\* a runtime.Error raised by the Go runtime
RuntimeError(str) == [t |-> "runtime", s |-> str, n |-> 0]

NilDereference ==
    RuntimeError("runtime error: invalid memory address or nil pointer dereference")

IndexOutOfRange == RuntimeError("runtime error: index out of range [-1]")

TypeAssertionError ==
    RuntimeError("interface conversion: interface {} is int, not string")

\* fmt.Sprint of one operand
Sprint(v) ==
    CASE v.t = "string" -> v.s
      [] v.t = "int" -> Itoa(v.n)
      [] v.t = "runtime" -> v.s
      [] OTHER -> "<nil>"

\* ----------------------------------------------------------- strings.ToLower
Uppers == <<"A", "B", "C", "D", "E", "F", "G", "H", "I", "J", "K", "L", "M",
            "N", "O", "P", "Q", "R", "S", "T", "U", "V", "W", "X", "Y", "Z">>

Lowers == <<"a", "b", "c", "d", "e", "f", "g", "h", "i", "j", "k", "l", "m",
            "n", "o", "p", "q", "r", "s", "t", "u", "v", "w", "x", "y", "z">>

ToLowerChar(c) ==
    IF \E i \in DOMAIN Uppers : Uppers[i] = c
    THEN Lowers[CHOOSE i \in DOMAIN Uppers : Uppers[i] = c]
    ELSE c

\* a header value is the sequence of its characters
ToLower(str) == [i \in DOMAIN str |-> ToLowerChar(str[i])]

ApplicationSlash == <<"a", "p", "p", "l", "i", "c", "a", "t", "i", "o", "n", "/">>

TextSlash == <<"t", "e", "x", "t", "/">>

JSONTypes == { ApplicationSlash \o <<"j", "s", "o", "n">>,
               TextSlash \o <<"j", "s", "o", "n">>,
               <<"j", "s", "o", "n">> }

XMLTypes == { ApplicationSlash \o <<"x", "m", "l">>,
              TextSlash \o <<"x", "m", "l">>,
              <<"x", "m", "l">> }

\* the switch on strings.ToLower(ct)
ContentBranch(ct) ==
    IF ToLower(ct) \in JSONTypes THEN "json"
    ELSE IF ToLower(ct) \in XMLTypes THEN "xml"
    ELSE "html"

\* --------------------------------------------------------- response writer
\* status 0: no header written yet.  writes: what was handed to Write;
\* body: what Write accepted.
NewResponse == [status |-> 0, headerCalls |-> << >>, writes |-> << >>, body |-> << >>]

\* the status of the response is fixed by the first WriteHeader call
WriteHeader(w, code) ==
    [w EXCEPT !.headerCalls = Append(@, code),
              !.status = IF @ = 0 THEN code ELSE @]

\* Write sends the header with 200 when none was written
Write(w, chunk, ok) ==
    [w EXCEPT !.status = IF @ = 0 THEN 200 ELSE @,
              !.writes = Append(@, chunk),
              !.body = IF ok THEN Append(@, chunk) ELSE @]

\* ------------------------------------------------------ defaultErrorHandler
Chunk(tmpl, code, errors, text) ==
    [tmpl |-> tmpl, code |-> code, errors |-> errors, text |-> text]

\* the fixed production body
ProdChunk == Chunk("prodErrorTmpl", 0, << >>, "<h1>We're Sorry!</h1> ...")

WriteFailure == << [kind |-> "plain", tracer |-> FALSE, msg |-> "write failed"] >>

RenderFailure == << [kind |-> "plain", tracer |-> FALSE, msg |-> "render failed"] >>

\* errors.WithStack(err)
WithStack(e) == << [kind |-> "wrap", tracer |-> TRUE, msg |-> ErrorMsg(e)] >> \o e

\* the running result of a call of the handler
Started ==
    [w |-> NewResponse, calls |-> << >>, logged |-> << >>,
     ret |-> Nil, outcome |-> "running", raised |-> NoValue]

Called(r, name) == [r EXCEPT !.calls = Append(@, name)]

Returns(r, e) == [r EXCEPT !.ret = e, !.outcome = "returned"]

Panics(r, v) == [r EXCEPT !.outcome = "panicked", !.raised = v]

\* env != nil && env.(string) == "production"
EnvBranch(env) ==
    IF env.t = "nil" THEN "developer"
    ELSE IF env.t # "string" THEN "panic"
    ELSE IF env.s = "production" THEN "production"
    ELSE "developer"

ProductionPath_WritesError(r, status, err, ok) ==
    LET r1 == [Called(r, "WriteHeader") EXCEPT !.w = WriteHeader(@, status)]
        r2 == [Called(r1, "Write") EXCEPT
                   !.w = Write(@, Chunk("raw", 0, << >>, ErrorMsg(err)), ok)]
    IN  Returns(r2, Nil)

ProductionPath(r, status, err, ok) ==
    LET r1 == [Called(r, "WriteHeader") EXCEPT !.w = WriteHeader(@, status)]
        r2 == [Called(r1, "Write") EXCEPT !.w = Write(@, ProdChunk, ok)]
    IN  Returns(r2, Nil)

DevPrelude_NoHeader(r, status, err) ==
    [Called(r, "Logger.Error") EXCEPT !.logged = Append(@, err)]

\* c.Logger().Error(err); c.Response().WriteHeader(status)
DevPrelude(r, status, err) ==
    LET r1 == [Called(r, "Logger.Error") EXCEPT !.logged = Append(@, err)]
    IN  [Called(r1, "WriteHeader") EXCEPT !.w = WriteHeader(@, status)]

StackText == "%+v"

\* the ErrorStack built for one item of the chain
EStackOf(item) ==
    IF IsStackTracer(item)
    THEN [Msg |-> ErrorMsg(item), Stack |-> StackText, HasStack |-> TRUE]
    ELSE [Msg |-> ErrorMsg(item), Stack |-> "", HasStack |-> FALSE]

EStacksOf(errorSlice) == [i \in DOMAIN errorSlice |-> EStackOf(errorSlice[i])]

\* for i := len(eStacks)/2 - 1; i >= 0; i-- { swap i and len-1-i }
\* (i is the 0-based index of the code)
RECURSIVE ReverseLoop(_, _)
ReverseLoop(eStacks, i) ==
    IF i < 0 THEN eStacks
    ELSE LET opp == Len(eStacks) - 1 - i
         IN  ReverseLoop([eStacks EXCEPT ![i + 1] = eStacks[opp + 1],
                                         ![opp + 1] = eStacks[i + 1]], i - 1)

ReverseEStacks(eStacks) == ReverseLoop(eStacks, (Len(eStacks) \div 2) - 1)

\* json.NewEncoder(c.Response()).Encode(...): one Write of the document
JSONBranch(r, status, eStacks, fails) ==
    LET ok == fails # "write"
        r1 == [Called(r, "Encode") EXCEPT
                   !.w = Write(@, Chunk("json", status, eStacks, ""), ok)]
    IN  Returns(r1, IF ok THEN Nil ELSE WriteFailure)

\* case "application/xml", "text/xml", "xml": empty, then return err
XMLBranch(r, err) == Returns(r, err)

HTMLBranch(r, status, eStacks, fails) ==
    LET r1 == Called(r, "Render")
    IN  IF fails = "render" THEN Returns(r1, WithStack(RenderFailure))
        ELSE LET ok == fails # "write"
                 r2 == [Called(r1, "WriteHeader") EXCEPT !.w = WriteHeader(@, 404)]
                 r3 == [Called(r2, "Write") EXCEPT
                            !.w = Write(@, Chunk("devErrorTmpl", status, eStacks, ""), ok)]
             IN  Returns(r3, IF ok THEN Nil ELSE WriteFailure)

DeveloperPath(r, status, err, ct, fails) ==
    LET r1 == DevPrelude(r, status, err)
        errorSlice == ErrorChain(err)
        r2 == Called(r1, "ErrorChain")
    IN  IF \E i \in DOMAIN errorSlice : ErrorPanics(errorSlice[i])
        THEN Panics(r2, NilDereference)
        ELSE LET eStacks == ReverseEStacks(EStacksOf(errorSlice))
                 r3 == Called(r2, "Header.Get")
                 branch == ContentBranch(ct)
             IN  CASE branch = "json" -> JSONBranch(r3, status, eStacks, fails)
                   [] branch = "xml" -> XMLBranch(r3, err)
                   [] OTHER -> HTMLBranch(r3, status, eStacks, fails)

defaultErrorHandler(status, err, env, ct, fails) ==
    LET r == Called(Started, "Get(env)")
        branch == EnvBranch(env)
    IN  CASE branch = "panic" -> Panics(r, TypeAssertionError)
          [] branch = "production" -> ProductionPath(r, status, err, fails # "write")
          [] OTHER -> DeveloperPath(r, status, err, ct, fails)

\* ------------------------------------------------------- Sentry middleware
Exception(value, hasStack) == [Value |-> value, HasStack |-> hasStack]

\* raven.NewPacket(message, interfaces...) with the request's raven.NewHttp
Packet(message, exceptions) ==
    [Message |-> message, Exceptions |-> exceptions, Http |-> TRUE]

PanicPacket_FixedMessage(r) ==
    Packet("panic", << Exception("panic", TRUE) >>)

\* rStr := fmt.Sprint(r); NewPacket(rStr, NewException(errors.New(rStr),
\* NewStacktrace(3, 3, prefixes)), NewHttp(c.Request()))
PanicPacket(r) ==
    Packet(Sprint(r), << Exception(Sprint(r), TRUE) >>)

\* the result of the error path: the reports captured, whether it panicked
\* and with what, and the err the closure goes on to return
ErrPathResult(captured, panicked, value, err) ==
    [reports |-> captured, panics |-> panicked, raised |-> value, err |-> err]

\* the loop of buildErrPacket: chain[len-1] first, chain[0] last
BuildExceptions(errs) ==
    [i \in DOMAIN errs |->
        Exception(ErrorMsg(errs[Len(errs) + 1 - i]),
                  IsStackTracer(errs[Len(errs) + 1 - i]))]

\* buildErrPacket; raven.NewException calls Error() on each error of the
\* chain, and chain[len(chain)-1] indexes an empty chain at -1
buildErrPacket(err) ==
    LET errs == ErrorChain(err)
    IN  IF \E i \in DOMAIN errs : ErrorPanics(errs[i])
        THEN ErrPathResult(<< >>, TRUE, NilDereference, err)
        ELSE IF Len(errs) = 0
        THEN ErrPathResult(<< >>, TRUE, IndexOutOfRange, err)
        ELSE ErrPathResult(
                 << Packet(ErrorMsg(errs[Len(errs)]), BuildExceptions(errs)) >>,
                 FALSE, NoValue, err)

\* first revision (lines 34-49): err is replaced by the HTTPError's cause
\* (httpErr.Cause, the cause field of the HTTPError of that revision);
\* NewException(httpErr, ...) is given the zero HTTPError when err is none,
\* and raven.NewException calls its Error()
ErrPath1(err) ==
    LET unwrapped == IF IsHTTPError(err) THEN Cause(err) ELSE err
    IN  IF ErrorPanics(unwrapped)
        THEN ErrPathResult(<< >>, TRUE, NilDereference, unwrapped)
        ELSE IF IsStackTracer(unwrapped)
        THEN IF ~IsHTTPError(err)
             THEN ErrPathResult(<< >>, TRUE, NilDereference, unwrapped)
             ELSE ErrPathResult(
                      << Packet(ErrorMsg(unwrapped),
                                << Exception(ErrorMsg(unwrapped), TRUE) >>) >>,
                      FALSE, NoValue, unwrapped)
        ELSE ErrPathResult(<< Packet(ErrorMsg(unwrapped), << >>) >>,
                           FALSE, NoValue, unwrapped)

\* second revision (lines 110-113)
ErrPath2(err) == buildErrPacket(err)

\* third revision (lines 201-204)
ErrPath3(err) ==
    IF ErrorPanics(err)
    THEN ErrPathResult(<< >>, TRUE, NilDereference, err)
    ELSE ErrPathResult(<< Packet(ErrorMsg(err), << Exception(ErrorMsg(err), TRUE) >>) >>,
                       FALSE, NoValue, err)

\* fourth revision (lines 243-252), a draft: the packet of line 246 is what
\* line 247 captures, and the Capture after the if is unconditional
ErrPath4(err) ==
    IF ErrorPanics(err)
    THEN ErrPathResult(<< >>, TRUE, NilDereference, err)
    ELSE LET traced == Packet(ErrorMsg(err), << Exception(ErrorMsg(err), TRUE) >>)
             plain == Packet(ErrorMsg(err), << >>)
         IN  ErrPathResult(IF IsStackTracer(err) THEN <<traced, plain>> ELSE <<plain>>,
                           FALSE, NoValue, err)

\* if !panicsOnly && err != nil { ... }
ErrPath(variant, panicsOnly, err) ==
    IF panicsOnly \/ err = Nil
    THEN ErrPathResult(<< >>, FALSE, NoValue, err)
    ELSE CASE variant = 1 -> ErrPath1(err)
           [] variant = 2 -> ErrPath2(err)
           [] variant = 3 -> ErrPath3(err)
           [] OTHER -> ErrPath4(err)

\* ------------------------------------------------------------------- inputs
Variants == 1..4

Statuses == {404, 500}

Envs == { NoValue, StringValue("production"), StringValue("development"),
          StringValue("Production"), IntValue(1) }

ContentTypes ==
    { << >>,
      <<"j", "s", "o", "n">>,
      <<"J", "S", "O", "N">>,
      ApplicationSlash \o <<"j", "s", "o", "n">>,
      <<"T", "e", "x", "t", "/">> \o <<"J", "s", "o", "n">>,
      <<"j", "s", "o", "n", ";">>,
      <<"x", "m", "l">>,
      TextSlash \o <<"X", "M", "L">>,
      ApplicationSlash \o <<"x", "m", "l">>,
      TextSlash \o <<"h", "t", "m", "l">> }

Failures == {"none", "render", "write"}

PanicValues == { StringValue("boom"), StringValue("7"), IntValue(7), IntValue(42),
                 NilDereference }

\* ------------------------------------------------------------------- state
VARIABLES
    pc,          \* where the operation under way stands
    arg,         \* the arguments of the operation under way
    chain,       \* the result of ErrorChain
    w,           \* the response writer of the request
    calls,       \* the collaborator calls of defaultErrorHandler, in order
    logged,      \* what c.Logger().Error was given
    ret,         \* the error returned by the operation
    outcome,     \* "none", "returned" or "panicked"
    raised,      \* the value the operation panicked with
    reports,     \* the packets given to Capture, in order
    handlerOut   \* how next(c) ended in the middleware

vars == <<pc, arg, chain, w, calls, logged, ret, outcome, raised, reports, handlerOut>>

NoArg ==
    [op |-> "none", status |-> 0, err |-> Nil, env |-> NoValue, ct |-> << >>,
     fails |-> "none", variant |-> 0, panicsOnly |-> FALSE]

NoHandlerOut == [kind |-> "none", err |-> Nil, r |-> NoValue]

Init ==
    /\ pc = "idle"
    /\ arg = NoArg
    /\ chain = << >>
    /\ w = NewResponse
    /\ calls = << >>
    /\ logged = << >>
    /\ ret = Nil
    /\ outcome = "none"
    /\ raised = NoValue
    /\ reports = << >>
    /\ handlerOut = NoHandlerOut

\* ErrorChain(e)
CallErrorChain ==
    /\ pc = "idle"
    /\ \E e \in ErrorsOrNil :
        /\ arg' = [NoArg EXCEPT !.op = "ErrorChain", !.err = e]
        /\ chain' = ErrorChain(e)
    /\ pc' = "chainDone"
    /\ outcome' = "returned"
    /\ UNCHANGED <<w, calls, logged, ret, raised, reports, handlerOut>>

\* buildErrPacket(err, prefixes, c), called with a non-nil err
CallBuildErrPacket ==
    /\ pc = "idle"
    /\ \E e \in Errors :
        LET r == buildErrPacket(e)
        IN  /\ arg' = [NoArg EXCEPT !.op = "buildErrPacket", !.err = e]
            /\ reports' = r.reports
            /\ outcome' = IF r.panics THEN "panicked" ELSE "returned"
            /\ raised' = r.raised
    /\ pc' = "packetDone"
    /\ UNCHANGED <<chain, w, calls, logged, ret, handlerOut>>

\* defaultErrorHandler(status, err, c)
CallDefaultErrorHandler ==
    /\ pc = "idle"
    /\ \E status \in Statuses, e \in ErrorsOrNil, env \in Envs,
          ct \in ContentTypes, fails \in Failures :
        LET r == defaultErrorHandler(status, e, env, ct, fails)
        IN  /\ arg' = [NoArg EXCEPT !.op = "defaultErrorHandler", !.status = status,
                                    !.err = e, !.env = env, !.ct = ct, !.fails = fails]
            /\ w' = r.w
            /\ calls' = r.calls
            /\ logged' = r.logged
            /\ ret' = r.ret
            /\ outcome' = r.outcome
            /\ raised' = r.raised
    /\ pc' = "handlerDone"
    /\ UNCHANGED <<chain, reports, handlerOut>>

\* the closure of Sentry(prefixes, panicsOnly) is entered: the recovery is
\* deferred and next(c) called
SentryEnter ==
    /\ pc = "idle"
    /\ \E v \in Variants, p \in BOOLEAN :
        arg' = [NoArg EXCEPT !.op = "Sentry", !.variant = v, !.panicsOnly = p]
    /\ pc' = "next"
    /\ UNCHANGED <<chain, w, calls, logged, ret, outcome, raised, reports, handlerOut>>

\* next(c) returns err
NextReturns ==
    /\ pc = "next"
    /\ \E e \in ErrorsOrNil :
        handlerOut' = [kind |-> "return", err |-> e, r |-> NoValue]
    /\ pc' = "errPath"
    /\ UNCHANGED <<arg, chain, w, calls, logged, ret, outcome, raised, reports>>

\* next(c) panics with r: the deferred function runs
NextPanics ==
    /\ pc = "next"
    /\ \E r \in PanicValues :
        /\ handlerOut' = [kind |-> "panic", err |-> Nil, r |-> r]
        /\ raised' = r
    /\ pc' = "recover"
    /\ UNCHANGED <<arg, chain, w, calls, logged, ret, outcome, reports>>

\* the error path after next(c) returned, up to return err or a panic
SentryErrPath ==
    /\ pc = "errPath"
    /\ LET r == ErrPath(arg.variant, arg.panicsOnly, handlerOut.err)
       IN  /\ reports' = reports \o r.reports
           /\ IF r.panics
              THEN /\ raised' = r.raised
                   /\ pc' = "recover"
                   /\ UNCHANGED <<ret, outcome>>
              ELSE /\ ret' = r.err
                   /\ outcome' = "returned"
                   /\ pc' = "sentryDone"
                   /\ UNCHANGED raised
    /\ UNCHANGED <<arg, chain, w, calls, logged, handlerOut>>

\* the deferred function: recover() gave r, the packet is captured
SentryRecover ==
    /\ pc = "recover"
    /\ reports' = Append(reports, PanicPacket(raised))
    /\ pc' = "repanic"
    /\ UNCHANGED <<arg, chain, w, calls, logged, ret, outcome, raised, handlerOut>>

\* panic(r)
SentryRepanic ==
    /\ pc = "repanic"
    /\ outcome' = "panicked"
    /\ pc' = "sentryDone"
    /\ UNCHANGED <<arg, chain, w, calls, logged, ret, raised, reports, handlerOut>>

\* the request is over; the next one starts from nothing
Reset ==
    /\ pc \in {"chainDone", "packetDone", "handlerDone", "sentryDone"}
    /\ pc' = "idle"
    /\ arg' = NoArg
    /\ chain' = << >>
    /\ w' = NewResponse
    /\ calls' = << >>
    /\ logged' = << >>
    /\ ret' = Nil
    /\ outcome' = "none"
    /\ raised' = NoValue
    /\ reports' = << >>
    /\ handlerOut' = NoHandlerOut

Next ==
    \/ CallErrorChain
    \/ CallBuildErrPacket
    \/ CallDefaultErrorHandler
    \/ SentryEnter
    \/ NextReturns
    \/ NextPanics
    \/ SentryErrPath
    \/ SentryRecover
    \/ SentryRepanic
    \/ Reset

Spec == Init /\ [][Next]_vars

\* ------------------------------------------------------------------ claims
\* the errors linked by the caused-by relation, outermost first: e1 = e,
\* each next one the cause of the one before, the last with no cause
CausalChain(e) == [i \in 1..Len(e) |-> SubSeq(e, i, Len(e))]

\* no error of the causal chain of e panics in its Error() method
\* (an HTTPError whose CausedBy is nil does)
Printable(e) == \A i \in 1..Len(e) : ~ErrorPanics(SubSeq(e, i, Len(e)))

Reversed(s) == [i \in 1..Len(s) |-> s[Len(s) + 1 - i]]

\* the text m occurs in the chunk
Contains(chunk, m) ==
    \/ chunk.text = m
    \/ \E i \in DOMAIN chunk.errors : chunk.errors[i].Msg = m

\* C1: for a non-nil error e, ErrorChain(e) is exactly the errors e1..eN of
\* its caused-by chain, outermost first, the terminal one included whether or
\* not it is a Causer; [e] when e is no Causer; never empty.
C1_ErrorChainIsCausalChain ==
    (pc = "chainDone" /\ arg.err # Nil)
        => /\ chain = CausalChain(arg.err)
           /\ Len(chain) >= 1
           /\ (~IsCauser(arg.err) => chain = <<arg.err>>)

C3_OneReportPerReturnedError ==
    (pc = "sentryDone" /\ handlerOut.kind = "return")
        => Len(reports) =
              IF handlerOut.err # Nil /\ ~arg.panicsOnly THEN 1 ELSE 0

\* C4: when next(c) returns, the middleware returns exactly the error next(c)
\* returned (nil, or the same HTTPError and not its cause) and does not
\* panic, for either value of panicsOnly.  Stated for the errors whose own
\* Error() methods do not panic.
C4_ReturnsWhatTheHandlerReturned ==
    (pc = "sentryDone" /\ handlerOut.kind = "return" /\ Printable(handlerOut.err))
        => /\ outcome = "returned"
           /\ ret = handlerOut.err

\* C5: for a non-nil err, buildErrPacket builds a packet with one exception
\* per error of err's causal chain, at least one, root cause first, and the
\* request context, and its message is the root cause's message.  Stated for
\* the errors whose own Error() methods do not panic.
C5_PacketHoldsCausalChainOldestFirst ==
    (pc = "packetDone" /\ Printable(arg.err))
        => /\ outcome = "returned"
           /\ Len(reports) = 1
           /\ Len(reports[1].Exceptions) >= 1
           /\ reports[1].Exceptions =
                 Reversed([i \in 1..Len(arg.err) |->
                     Exception(ErrorMsg(CausalChain(arg.err)[i]),
                               IsStackTracer(CausalChain(arg.err)[i]))])
           /\ reports[1].Http
           /\ reports[1].Message =
                 ErrorMsg(CausalChain(arg.err)[Len(arg.err)])

\* C6: with env the string "production", defaultErrorHandler writes the
\* status it was given and the fixed production body and nothing else, does
\* not log, build the chain or read the content type, and returns nil; the
\* body is the same for every error and does not contain the error's message.
C6_ProductionWritesFixedBody ==
    (pc = "handlerDone" /\ arg.env = StringValue("production"))
        => /\ calls = <<"Get(env)", "WriteHeader", "Write">>
           /\ logged = << >>
           /\ w.headerCalls = <<arg.status>>
           /\ w.status = arg.status
           /\ w.writes = <<ProdChunk>>
           /\ (arg.fails # "write" => w.body = <<ProdChunk>>)
           /\ outcome = "returned"
           /\ ret = Nil
           /\ \A i \in 1..Len(arg.err) :
                 ~ErrorPanics(SubSeq(arg.err, i, Len(arg.err)))
                    => \A k \in DOMAIN w.writes :
                          ~Contains(w.writes[k],
                                    ErrorMsg(SubSeq(arg.err, i, Len(arg.err))))

C6_Witness ==
    /\ pc = "handlerDone"
    /\ arg.env = StringValue("production")
    /\ arg.status = 500
    /\ Len(arg.err) = 2
    /\ Printable(arg.err)
    /\ ToLower(arg.ct) \in JSONTypes
    /\ w.body = <<ProdChunk>>
    /\ w.status = 500

\* the display records the claims expect: one per error of the causal chain,
\* root cause first
ExpectedRecords(e) == Reversed([i \in 1..Len(e) |-> EStackOf(CausalChain(e)[i])])

\* C7: in developer mode with a JSON content type, the document written has
\* the status as "code" and as "errors" one record per error of the causal
\* chain of err, root cause first.  Stated for the errors whose own Error()
\* methods do not panic.
C7_JSONListsCausalChainOldestFirst ==
    (/\ pc = "handlerDone"
     /\ EnvBranch(arg.env) = "developer"
     /\ ToLower(arg.ct) \in JSONTypes
     /\ Printable(arg.err))
        => w.writes = << Chunk("json", arg.status, ExpectedRecords(arg.err), "") >>

\* C8: defaultErrorHandler takes the production path only when env is the
\* string "production"; for every other env (nil, another string, a value
\* that is no string) it takes the developer path and does not panic in
\* choosing.
C8_OnlyProductionStringSelectsProduction ==
    pc = "handlerDone"
        => IF arg.env = StringValue("production")
           THEN calls = <<"Get(env)", "WriteHeader", "Write">>
           ELSE /\ Len(calls) >= 2
                /\ calls[2] = "Logger.Error"
                /\ logged = <<arg.err>>

\* the call reached the end of the HTML branch: the page was rendered
HTMLPageWritten ==
    /\ pc = "handlerDone"
    /\ EnvBranch(arg.env) = "developer"
    /\ ContentBranch(arg.ct) = "html"
    /\ outcome = "returned"
    /\ arg.fails # "render"

\* C9 as stated: on the HTML branch the response carries status 404 for
\* every status argument, the writer fixing the status at the first
\* WriteHeader call.
C9_HTMLResponseCarries404 ==
    HTMLPageWritten => w.status = 404

\* C9 amended: on the HTML branch WriteHeader is called with the status
\* argument first and with 404 second, so the response carries the status
\* argument; the page shows the status argument too.
C9_HTMLResponseCarriesStatusArgument ==
    HTMLPageWritten
        => /\ w.headerCalls = <<arg.status, 404>>
           /\ w.status = arg.status
           /\ Len(w.writes) = 1
           /\ w.writes[1].tmpl = "devErrorTmpl"
           /\ w.writes[1].code = arg.status

C9_Witness ==
    /\ HTMLPageWritten
    /\ arg.status = 500
    /\ arg.err # Nil
    /\ w.headerCalls = <<500, 404>>
    /\ w.status = 500
    /\ w.body # << >>

\* C10: defaultErrorHandler returns a non-nil error only when the template
\* failed to render or the response failed to be written; otherwise it
\* returns nil, and it never returns the error it was given.
C10_NonNilReturnOnlyOnFailure ==
    (pc = "handlerDone" /\ outcome = "returned")
        => /\ ret # Nil
                => \/ /\ arg.fails = "render"
                      /\ ContentBranch(arg.ct) = "html"
                      /\ ret = WithStack(RenderFailure)
                   \/ /\ arg.fails = "write"
                      /\ ContentBranch(arg.ct) \in {"json", "html"}
                      /\ ret = WriteFailure
           /\ arg.err # Nil => ret # arg.err

====
